---- MODULE Spec2Model ----
(***************************************************************************)
(* Model of f5cs_eap_security_events_monitoring.py: one run of the script  *)
(* (token load, login / relogin, events query with one retry on 401, row   *)
(* building, gated e-mail), re-invoked by an external scheduler with the   *)
(* tokens.yaml file as the only state that survives a run.                 *)
(*                                                                         *)
(* The environment is modelled at the level of HTTP responses (status and  *)
(* body) and of the content of tokens.yaml.  Python dicts are functions    *)
(* whose DOMAIN is the set of keys present; a missing key is a KeyError.   *)
(***************************************************************************)
EXTENDS Integers, Sequences, FiniteSets, TLC

\* Largest number of events a response carries in the model.
MaxEvents == 21

\* Python's None, as it appears in a variable or an f-string.
None == "None"

-----------------------------------------------------------------------------
(* Dicts, YAML                                                             *)

EmptyDict == <<>>

HasKey(d, k) == k \in DOMAIN d

Pop(d, k) == [j \in DOMAIN d \ {k} |-> d[j]]

\* Keys of the dicts that reach yaml.dump, in the order yaml.dump sorts them.
KeyOrder == <<"access_token", "error", "refresh_token">>

\* yaml.dump(d, default_flow_style=False): one "key: value" line per key,
\* keys sorted.
YamlDump(d) ==
    LET keys == SelectSeq(KeyOrder, LAMBDA k : k \in DOMAIN d)
    IN  [n \in 1..Len(keys) |-> <<keys[n], d[keys[n]]>>]

\* yaml.safe_load of a block mapping: the dict of its lines.
YamlLoad(doc) ==
    [k \in {doc[n][1] : n \in 1..Len(doc)} |->
        doc[CHOOSE n \in 1..Len(doc) : doc[n][1] = k][2]]

\* Python's `needle in hay` on strings, the strings being word sequences.
Contains(needle, hay) ==
    \E k \in 0..(Len(hay) - Len(needle)) :
        SubSeq(hay, k + 1, k + Len(needle)) = needle

-----------------------------------------------------------------------------
(* Responses of the authentication endpoints                               *)

IncorrectMsg == <<"Incorrect", "username", "or", "password">>
FailedMsg    == <<"Failed", "to", "re-login.">>

ErrorTexts ==
    { <<"Incorrect", "username", "or", "password">>,
      <<"Failed", "to", "re-login.", "Refresh", "token", "expired">>,
      <<"Bad", "request">> }

AccessTokens  == {"at1", "at2"}
RefreshTokens == {"rt1", "rt2"}

TokenBodies ==
    { [access_token |-> a, refresh_token |-> r] :
          a \in AccessTokens, r \in RefreshTokens }
    \cup { [access_token |-> a] : a \in AccessTokens }
    \cup { [refresh_token |-> r] : r \in RefreshTokens }
    \cup { EmptyDict }

ErrorBodies == { [error |-> e] : e \in ErrorTexts }

AuthStatuses == {200, 400, 500}

\* A response: its status, whether its body parses as JSON, and the body.
AuthResponses ==
    { [status |-> s, isJson |-> TRUE, body |-> b] :
          s \in AuthStatuses, b \in TokenBodies \cup ErrorBodies }
    \cup { [status |-> s, isJson |-> FALSE, body |-> EmptyDict] :
          s \in AuthStatuses }

-----------------------------------------------------------------------------
(* login(username, password), lines 31-52                                  *)

\* The rejection looked for under the wrong status.
LoginRejectedOn401(resp) ==
    /\ resp.status = 401
    /\ Contains(IncorrectMsg, resp.body.error)

\* line 42: status_code == 400 and "Incorrect username or password" in
\* json()["error"].  Evaluated only when the status is 400.
LoginRejected(resp) ==
    /\ resp.status = 400
    /\ Contains(IncorrectMsg, resp.body.error)

\* Every status but 400 taken for a success.
LoginSucceededUnless400(resp) == resp.status # 400

\* line 46
LoginSucceeded(resp) == resp.status = 200

\* Every 400 taken for rejected credentials, whatever its message.
LoginRaisesOnAny400(resp) ==
    IF resp.status = 400
    THEN IF ~resp.isJson THEN "JSONDecodeError"
         ELSE IF ~HasKey(resp.body, "error") THEN "KeyError"
         ELSE "AuthenticationError"
    ELSE IF resp.status = 200
    THEN IF ~resp.isJson THEN "JSONDecodeError"
         ELSE IF ~HasKey(resp.body, "access_token") THEN "KeyError"
         ELSE None
    ELSE None

\* The exception a login call ends with, or None.
LoginRaises(resp) ==
    IF resp.status = 400
    THEN IF ~resp.isJson THEN "JSONDecodeError"
         ELSE IF ~HasKey(resp.body, "error") THEN "KeyError"
         ELSE IF LoginRejected(resp) THEN "AuthenticationError"
         ELSE None
    ELSE IF LoginSucceeded(resp)
    THEN IF ~resp.isJson THEN "JSONDecodeError"
         ELSE IF ~HasKey(resp.body, "access_token") THEN "KeyError"
         ELSE None
    ELSE None

\* What login returns when it does not raise: the access token on 200,
\* None when the function falls off its end.
LoginReturn(resp) ==
    IF LoginSucceeded(resp) THEN resp.body.access_token ELSE None

\* The response body dumped without its access token.
LoginFileNoAccess(resp, file) ==
    IF resp.status = 200
    THEN [exists |-> TRUE, doc |-> YamlDump(Pop(resp.body, "access_token"))]
    ELSE file

\* tokens.yaml after a login that does not raise.
LoginFile(resp, file) ==
    IF LoginSucceeded(resp)
    THEN [exists |-> TRUE, doc |-> YamlDump(resp.body)]
    ELSE file

-----------------------------------------------------------------------------
(* relogin(username, refresh_token), lines 55-78                           *)

\* The failed re-login looked for under the wrong status.
ReloginFailedOn401(resp) ==
    /\ resp.status = 401
    /\ Contains(FailedMsg, resp.body.error)

\* line 64
ReloginFailed(resp) ==
    /\ resp.status = 400
    /\ Contains(FailedMsg, resp.body.error)

\* line 71
ReloginSucceeded(resp) == resp.status = 200

\* The exception relogin ends with before any call of login, or None.
ReloginRaises(resp) ==
    IF resp.status = 400
    THEN IF ~resp.isJson THEN "JSONDecodeError"
         ELSE IF ~HasKey(resp.body, "error") THEN "KeyError"
         ELSE None
    ELSE IF ReloginSucceeded(resp)
    THEN IF ~resp.isJson THEN "JSONDecodeError"
         ELSE IF ~HasKey(resp.body, "access_token") THEN "KeyError"
         ELSE None
    ELSE None

ReloginReturn(resp) ==
    IF ReloginSucceeded(resp) THEN resp.body.access_token ELSE None

\* lines 75-77: tokens_dict = {access_token, refresh_token (the argument)}
ReloginFile(resp, refresh, file) ==
    IF ReloginSucceeded(resp)
    THEN [exists |-> TRUE,
          doc |-> YamlDump([access_token |-> resp.body.access_token,
                            refresh_token |-> refresh])]
    ELSE file

-----------------------------------------------------------------------------
(* Security events and report rows, lines 149-169                          *)

\* Number of rows after which the loop breaks (line 153).
RowCap == 20

\* The fields the loop pops, in the order it pops them (lines 158-167).
PopOrder ==
    <<"date_time", "uri", "severity", "detection_events", "attack_types",
      "request_status", "source_ip", "geo_country">>

\* The fields whose absence makes the loop body raise: pop(k, None) gives
\* None, and strptime(None), ", ".join(None), None.title() raise.
RaisingKeys ==
    {"date_time", "detection_events", "attack_types", "geo_country"}

MonthAbbr ==
    <<"Jan", "Feb", "Mar", "Apr", "May", "Jun",
      "Jul", "Aug", "Sep", "Oct", "Nov", "Dec">>

\* strptime("%Y-%m-%dT%H:%M:%SZ") then strftime("%b %d, %Y/%H:%M:%S"):
\* a date_time <<Y, M, D, h, m, s>> becomes <<Mon, D, Y, h, m, s>>.
FormatDateTime(dt) == <<MonthAbbr[dt[2]], dt[3], dt[1], dt[4], dt[5], dt[6]>>

\* ", ".join(list)
RECURSIVE Join(_)
Join(list) ==
    IF Len(list) = 0 THEN ""
    ELSE IF Len(list) = 1 THEN list[1]
    ELSE list[1] \o ", " \o Join(Tail(list))

\* str.title() on the country names of the model.
Title(s) ==
    CASE s = "united states" -> "United States"
      [] s = "GERMANY"       -> "Germany"
      [] s = "france"        -> "France"
      [] OTHER               -> s

\* sec_incident.pop(k, None)
PopOrNone(ev, k) == IF HasKey(ev, k) THEN ev[k] ELSE None

\* Index in PopOrder of the first pop whose result makes the body raise,
\* 0 when the body completes.
FailIndex(ev) ==
    LET bad == {n \in 1..Len(PopOrder) :
                   PopOrder[n] \in RaisingKeys /\ ~HasKey(ev, PopOrder[n])}
    IN  IF bad = {} THEN 0
        ELSE CHOOSE n \in bad : \A m \in bad : n <= m

\* The exception the loop body ends with for an event, or None.
RowRaises(ev) ==
    IF FailIndex(ev) = 0 THEN None
    ELSE IF PopOrder[FailIndex(ev)] = "geo_country" THEN "AttributeError"
    ELSE "TypeError"

\* The raw event after the loop body ran on it: the popped keys are gone.
EventAfter(ev) ==
    LET last == IF FailIndex(ev) = 0 THEN Len(PopOrder) ELSE FailIndex(ev)
        gone == {PopOrder[n] : n \in 1..last}
    IN  [k \in DOMAIN ev \ gone |-> ev[k]]

\* jinja_item_dict for an event on which the body completes.
BuildRow(ev) ==
    [date_time        |-> FormatDateTime(ev.date_time),
     uri              |-> PopOrNone(ev, "uri"),
     severity         |-> PopOrNone(ev, "severity"),
     detection_events |-> Join(ev.detection_events),
     attack_types     |-> Join(ev.attack_types),
     request_status   |-> PopOrNone(ev, "request_status"),
     source_ip        |-> PopOrNone(ev, "source_ip"),
     geo_country      |-> Title(ev.geo_country)]

Countries == <<"united states", "GERMANY", "france">>

\* The n-th event of a response: distinct events for distinct n.
Event(n) ==
    [date_time        |-> <<2023, ((n - 1) % 12) + 1, ((n - 1) % 28) + 1,
                            9, 32, n % 60>>,
     uri              |-> "/login",
     severity         |-> IF n % 2 = 0 THEN "high" ELSE "low",
     detection_events |-> IF n % 2 = 0 THEN <<"sqli", "xss">> ELSE <<"sqli">>,
     attack_types     |-> IF n % 3 = 0 THEN <<>> ELSE <<"sql injection">>,
     request_status   |-> "blocked",
     source_ip        |-> <<1, 2, 3, n>>,
     geo_country      |-> Countries[(n % 3) + 1],
     support_id       |-> n]

GoodList(n) == [k \in 1..n |-> Event(k)]

\* A list whose last event lacks one field.
BadList(n, key) ==
    [k \in 1..n |-> IF k = n THEN Pop(Event(k), key) ELSE Event(k)]

EventLists ==
    { GoodList(n) : n \in 0..MaxEvents }
    \cup { BadList(n, key) :
              n \in {1, RowCap, MaxEvents},
              key \in {"geo_country", "date_time", "uri"} }

WellFormed(list) ==
    \A k \in 1..Len(list) : \A n \in 1..Len(PopOrder) : HasKey(list[k], PopOrder[n])

\* Responses of the events endpoint.
EventsBody(list) == [events |-> list]

EventsResponses ==
    { [status |-> 200, isJson |-> TRUE, body |-> EventsBody(l)] :
          l \in EventLists }
    \cup { [status |-> s, isJson |-> TRUE, body |-> b] :
          s \in {200, 401, 500},
          b \in {EventsBody(GoodList(0)), EventsBody(GoodList(1)),
                 [error |-> <<"Bad", "request">>]} }
    \cup { [status |-> s, isJson |-> FALSE, body |-> EmptyDict] :
          s \in {200, 500} }

-----------------------------------------------------------------------------
(* State                                                                   *)

VARIABLES
    tokenFile,      \* tokens.yaml: whether it exists, and its lines
    globals,        \* module-level names access_token, refresh_token
    pc,             \* position of the run
    loginCaller,    \* who called login: "startup" or "relogin"
    err,            \* the exception that ended the run, or None
    logins,         \* the login calls of the run
    relogins,       \* the relogin calls of the run
    queries,        \* the requests to the events endpoint of the run
    localToken,     \* access_token inside get_security_incidents
    returned,       \* index of the query whose response was returned, or 0
    events,         \* security_incidents['events'] (the loop pops from it)
    sec_inc_items,  \* the rows built
    i,              \* the loop counter
    renders,        \* calls of generate_html_email_body
    sent            \* messages handed to smtp.send_message

vars ==
    <<tokenFile, globals, pc, loginCaller, err, logins, relogins, queries,
      localToken, returned, events, sec_inc_items, i, renders, sent>>

\* app_name (line 122)
app_name == ""

SetKey(d, k, v) == [j \in DOMAIN d \cup {k} |-> IF j = k THEN v ELSE d[j]]

\* The state of a process that has just been started.
FreshRun ==
    /\ globals = EmptyDict
    /\ pc = "start"
    /\ loginCaller = None
    /\ err = None
    /\ logins = <<>>
    /\ relogins = <<>>
    /\ queries = <<>>
    /\ localToken = None
    /\ returned = 0
    /\ events = <<>>
    /\ sec_inc_items = <<>>
    /\ i = 0
    /\ renders = 0
    /\ sent = <<>>

Init ==
    /\ tokenFile = [exists |-> FALSE, doc |-> <<>>]
    /\ FreshRun

\* The run ends with an uncaught exception.
Raise(kind) ==
    /\ pc' = "error"
    /\ err' = kind

-----------------------------------------------------------------------------
(* Startup, lines 129-138                                                  *)

LoadTokens ==
    /\ pc = "start"
    /\ LET data == YamlLoad(tokenFile.doc)
       IN  IF ~tokenFile.exists \/ ~HasKey(data, "access_token")
           THEN /\ pc' = "login"
                /\ loginCaller' = "startup"
                /\ UNCHANGED globals
           ELSE IF ~HasKey(data, "refresh_token")
           THEN /\ pc' = "login"
                /\ loginCaller' = "startup"
                /\ globals' = SetKey(globals, "access_token", data.access_token)
           ELSE /\ pc' = "query1"
                /\ UNCHANGED loginCaller
                /\ globals' = SetKey(SetKey(globals, "access_token",
                                            data.access_token),
                                     "refresh_token", data.refresh_token)
    /\ UNCHANGED <<tokenFile, err, logins, relogins, queries, localToken,
                   returned, events, sec_inc_items, i, renders, sent>>

\* login, called at startup (line 138) or by relogin (line 68); on return
\* the caller stores the result and goes on.
Login ==
    /\ pc = "login"
    /\ \E resp \in AuthResponses :
         LET raised == LoginRaises(resp)
             ret    == IF raised = None THEN LoginReturn(resp) ELSE None
         IN  /\ logins' = Append(logins, [caller |-> loginCaller,
                                          resp |-> resp,
                                          raised |-> raised,
                                          ret |-> ret])
             /\ IF raised # None
                THEN /\ Raise(raised)
                     /\ UNCHANGED <<tokenFile, globals, localToken, relogins>>
                ELSE /\ tokenFile' = LoginFile(resp, tokenFile)
                     /\ err' = err
                     /\ IF loginCaller = "startup"
                        THEN /\ globals' = SetKey(globals, "access_token", ret)
                             /\ pc' = "query1"
                             /\ UNCHANGED <<localToken, relogins>>
                        ELSE /\ localToken' = ret
                             /\ relogins' =
                                  [relogins EXCEPT ![Len(relogins)].ret = ret,
                                                   ![Len(relogins)].returns = TRUE]
                             /\ pc' = "query2"
                             /\ UNCHANGED globals
    /\ UNCHANGED <<loginCaller, queries, returned, events, sec_inc_items, i,
                   renders, sent>>

-----------------------------------------------------------------------------
(* get_security_incidents, lines 81-102, and its use, lines 147-150        *)

\* A retry on every error status instead of on 401 only.
ShouldRetryAnyError(status) == status >= 400

\* line 96
ShouldRetry(status) == status = 401

\* return sec_incidents_request.json() (line 102), then
\* security_incidents['events'] (line 150).
ReturnResponse(resp, index) ==
    IF ~resp.isJson
    THEN /\ Raise("JSONDecodeError")
         /\ UNCHANGED <<returned, events>>
    ELSE /\ returned' = index
         /\ IF ~HasKey(resp.body, "events")
            THEN /\ Raise("KeyError")
                 /\ UNCHANGED events
            ELSE /\ events' = resp.body.events
                 /\ pc' = "build"
                 /\ err' = err

Query1 ==
    /\ pc = "query1"
    /\ localToken' = globals.access_token
    /\ \E resp \in EventsResponses :
         /\ queries' = Append(queries, [bearer |-> localToken', resp |-> resp])
         /\ IF ShouldRetry(resp.status)
            THEN /\ IF HasKey(globals, "refresh_token")
                    THEN /\ pc' = "relogin"
                         /\ err' = err
                    ELSE Raise("NameError")
                 /\ UNCHANGED <<returned, events>>
            ELSE ReturnResponse(resp, 1)
    /\ UNCHANGED <<tokenFile, globals, loginCaller, logins, relogins,
                   sec_inc_items, i, renders, sent>>

\* relogin(username, refresh_token), called at line 97.
Relogin ==
    /\ pc = "relogin"
    /\ \E resp \in AuthResponses :
         LET raised  == ReloginRaises(resp)
             refresh == globals.refresh_token
             call    == [arg |-> refresh, resp |-> resp, raised |-> raised,
                         ret |-> None, returns |-> FALSE]
         IN  IF raised # None
             THEN /\ Raise(raised)
                  /\ relogins' = Append(relogins, call)
                  /\ UNCHANGED <<tokenFile, localToken, loginCaller>>
             ELSE IF ReloginFailed(resp)
             THEN /\ pc' = "login"
                  /\ loginCaller' = "relogin"
                  /\ relogins' = Append(relogins, call)
                  /\ UNCHANGED <<tokenFile, localToken, err>>
             ELSE /\ tokenFile' = ReloginFile(resp, refresh, tokenFile)
                  /\ localToken' = ReloginReturn(resp)
                  /\ relogins' =
                       Append(relogins, [call EXCEPT !.ret = ReloginReturn(resp),
                                                     !.returns = TRUE])
                  /\ pc' = "query2"
                  /\ UNCHANGED <<loginCaller, err>>
    /\ UNCHANGED <<globals, logins, queries, returned, events, sec_inc_items,
                   i, renders, sent>>

\* The second request (line 100); its response is returned whatever it is.
Query2 ==
    /\ pc = "query2"
    /\ \E resp \in EventsResponses :
         /\ queries' = Append(queries, [bearer |-> localToken, resp |-> resp])
         /\ ReturnResponse(resp, Len(queries) + 1)
    /\ UNCHANGED <<tokenFile, globals, loginCaller, logins, relogins,
                   localToken, sec_inc_items, i, renders, sent>>

-----------------------------------------------------------------------------
(* Row building, lines 149-169                                             *)

\* The cap tested one row late.
CapReachedLate(n) == n > RowCap

\* line 153
CapReached(n) == n >= RowCap

\* One pass of the loop body on the next event.
BuildStep ==
    /\ pc = "build"
    /\ i < Len(events)
    /\ ~CapReached(i)
    /\ LET ev == events[i + 1]
       IN  /\ events' = [events EXCEPT ![i + 1] = EventAfter(ev)]
           /\ IF RowRaises(ev) # None
              THEN /\ Raise(RowRaises(ev))
                   /\ UNCHANGED <<sec_inc_items, i>>
              ELSE /\ sec_inc_items' = Append(sec_inc_items, BuildRow(ev))
                   /\ i' = i + 1
                   /\ UNCHANGED <<pc, err>>
    /\ UNCHANGED <<tokenFile, globals, loginCaller, logins, relogins, queries,
                   localToken, returned, renders, sent>>

\* The loop ends: the list is exhausted or the cap is reached.
BuildDone ==
    /\ pc = "build"
    /\ (i >= Len(events) \/ CapReached(i))
    /\ pc' = "notify"
    /\ UNCHANGED <<tokenFile, globals, loginCaller, err, logins, relogins,
                   queries, localToken, returned, events, sec_inc_items, i,
                   renders, sent>>

-----------------------------------------------------------------------------
(* E-mail, lines 171-190                                                   *)

\* The gate without its emptiness test.
ShouldNotifyAlways(items) == Len(items) >= 0

\* line 172
ShouldNotify(items) == Len(items) > 0

\* generate_html_email_body(TEMPLATE_FILE, jinja_dict), lines 174-178
Render(items) == [app_name |-> app_name, sec_inc_items |-> items]

\* lines 181-185
Message(html) ==
    [subject |-> <<"Attack detected for", app_name>>, html |-> html]

Notify ==
    /\ pc = "notify"
    /\ ShouldNotify(sec_inc_items)
    /\ renders' = renders + 1
    /\ sent' = Append(sent, Message(Render(sec_inc_items)))
    /\ pc' = "done"
    /\ UNCHANGED <<tokenFile, globals, loginCaller, err, logins, relogins,
                   queries, localToken, returned, events, sec_inc_items, i>>

\* No rows: the script ends without rendering or sending.
SkipNotify ==
    /\ pc = "notify"
    /\ ~ShouldNotify(sec_inc_items)
    /\ pc' = "done"
    /\ UNCHANGED <<tokenFile, globals, loginCaller, err, logins, relogins,
                   queries, localToken, returned, events, sec_inc_items, i,
                   renders, sent>>

-----------------------------------------------------------------------------
(* The script is started again; only tokens.yaml survives.                 *)

NewRun ==
    /\ pc \in {"done", "error"}
    /\ globals' = EmptyDict
    /\ pc' = "start"
    /\ loginCaller' = None
    /\ err' = None
    /\ logins' = <<>>
    /\ relogins' = <<>>
    /\ queries' = <<>>
    /\ localToken' = None
    /\ returned' = 0
    /\ events' = <<>>
    /\ sec_inc_items' = <<>>
    /\ i' = 0
    /\ renders' = 0
    /\ sent' = <<>>
    /\ UNCHANGED tokenFile

Next ==
    \/ LoadTokens
    \/ Login
    \/ Query1
    \/ Relogin
    \/ Query2
    \/ BuildStep
    \/ BuildDone
    \/ Notify
    \/ SkipNotify
    \/ NewRun

Spec == Init /\ [][Next]_vars

TypeOK ==
    /\ pc \in {"start", "login", "query1", "relogin", "query2", "build",
               "notify", "done", "error"}
    /\ i = Len(sec_inc_items)
    /\ Len(queries) <= 2

-----------------------------------------------------------------------------
(* Properties                                                              *)

\* A response carries the message in its error field.
Carries(resp, msg) ==
    /\ resp.isJson
    /\ HasKey(resp.body, "error")
    /\ Contains(msg, resp.body.error)

LoginsBy(caller) == {k \in 1..Len(logins) : logins[k].caller = caller}

\* The events as the returned response carried them.
ReturnedEvents == queries[returned].resp.body.events

Min(a, b) == IF a <= b THEN a ELSE b

\* C1: one get_security_incidents invocation queries the events endpoint at
\* most twice; the second query exists only when the first answered 401;
\* after the second response, whatever its status, no further request is
\* prepared and the response the run uses is that second one.
C1_AtMostTwoQueries ==
    /\ Len(queries) <= 2
    /\ Len(queries) = 2 => queries[1].resp.status = 401
    /\ Len(queries) = 2 => pc \notin {"query1", "relogin", "login", "query2"}
    /\ returned # 0 =>
          /\ returned = Len(queries)
          /\ returned = 1 => queries[1].resp.status # 401
    /\ pc \in {"build", "notify", "done"} =>
          /\ returned = Len(queries)
          /\ Len(events) = Len(ReturnedEvents)

\* C1 witness: the retry answered 401 again, and that response was
\* returned and used to the end of the run.
C1_Witness ==
    /\ pc = "done"
    /\ Len(queries) = 2
    /\ queries[2].resp.status = 401
    /\ returned = 2

\* C2: a relogin answered 200 never calls login; a relogin answered 400
\* with 'Failed to re-login.' calls login exactly once, and what relogin
\* returns is what that login returned.
C2_ReloginFallback ==
    \A k \in 1..Len(relogins) :
       LET r == relogins[k]
       IN  /\ r.resp.status = 200 =>
                 /\ LoginsBy("relogin") = {}
                 /\ pc # "login"
           /\ (r.resp.status = 400 /\ Carries(r.resp, FailedMsg)) =>
                 \/ pc = "login" /\ LoginsBy("relogin") = {} /\ ~r.returns
                 \/ /\ Cardinality(LoginsBy("relogin")) = 1
                    /\ LET l == logins[CHOOSE n \in LoginsBy("relogin") : TRUE]
                       IN  /\ r.returns <=> l.raised = None
                           /\ r.returns => r.ret = l.ret

\* C2 witness: the refresh token was refused, login was called once and
\* relogin returned its token.
C2_Witness ==
    /\ Len(relogins) = 1
    /\ relogins[1].resp.status = 400
    /\ Carries(relogins[1].resp, FailedMsg)
    /\ Cardinality(LoginsBy("relogin")) = 1
    /\ relogins[1].returns
    /\ relogins[1].ret \in AccessTokens


\* C3: whichever way the startup token was obtained, a 401 to the first
\* query is followed by relogin with the stored refresh token and by one
\* more query carrying the token relogin returned.
C3_RecoveryOn401 ==
    (/\ Len(queries) >= 1
     /\ queries[1].resp.status = 401
     /\ HasKey(YamlLoad(tokenFile.doc), "refresh_token")) =>
        /\ err # "NameError"
        /\ (Len(relogins) >= 1 /\ logins = <<>>) =>
              relogins[1].arg = YamlLoad(tokenFile.doc).refresh_token
        /\ Len(queries) = 2 =>
              /\ Len(relogins) = 1
              /\ relogins[1].returns
              /\ queries[2].bearer = relogins[1].ret

\* C4: a run that ends has sent one e-mail when rows were built and none
\* otherwise; render and send happen only with at least one row, at most
\* once, and the subject carries the application name.
C4_EmailGate ==
    /\ Len(sent) <= 1
    /\ renders = Len(sent)
    /\ (renders > 0 \/ Len(sent) > 0) => Len(sec_inc_items) > 0
    /\ pc = "done" => Len(sent) = (IF Len(sec_inc_items) > 0 THEN 1 ELSE 0)
    /\ pc = "error" => Len(sent) = 0
    /\ \A k \in 1..Len(sent) :
          /\ sent[k].subject[2] = app_name
          /\ sent[k].html.sec_inc_items = sec_inc_items

\* C4 witness: a run with rows ended with its one e-mail.
C4_Witness ==
    /\ pc = "done"
    /\ Len(sec_inc_items) > 0
    /\ Len(sent) = 1
    /\ renders = 1

\* C5: for well-formed events the loop builds min(n, 20) rows, the k-th
\* from the k-th event; the events past the 20th are left as they came.
C5_RowsAreFirstTwenty ==
    /\ Len(sec_inc_items) <= RowCap
    /\ (pc \in {"notify", "done"} /\ WellFormed(ReturnedEvents)) =>
          LET n == Len(ReturnedEvents)
          IN  /\ Len(sec_inc_items) = Min(n, RowCap)
              /\ \A k \in 1..Len(sec_inc_items) :
                    /\ sec_inc_items[k] = BuildRow(ReturnedEvents[k])
                    /\ sec_inc_items[k].source_ip = ReturnedEvents[k].source_ip
                    /\ DOMAIN events[k] = {"support_id"}
              /\ \A k \in (RowCap + 1)..n : events[k] = ReturnedEvents[k]

\* C5 witness: more than 20 well-formed events came, 20 rows were built.
C5_Witness ==
    /\ pc = "done"
    /\ returned # 0
    /\ WellFormed(ReturnedEvents)
    /\ Len(ReturnedEvents) > RowCap
    /\ Len(sec_inc_items) = RowCap

\* C6: a login answered 400 'Incorrect username or password' ends the run
\* with AuthenticationError: it is the last request of the run (none after
\* the startup login; the one query and the one relogin before a fallback
\* login) and no e-mail is rendered or sent.
C6_RejectedLoginIsFatal ==
    \A k \in 1..Len(logins) :
       (logins[k].resp.status = 400 /\ Carries(logins[k].resp, IncorrectMsg)) =>
          /\ k = Len(logins)
          /\ logins[k].raised = "AuthenticationError"
          /\ pc = "error"
          /\ err = "AuthenticationError"
          /\ sent = <<>>
          /\ renders = 0
          /\ logins[k].caller = "startup" => queries = <<>> /\ relogins = <<>>
          /\ logins[k].caller = "relogin" =>
                /\ Len(queries) = 1
                /\ Len(relogins) = 1
                /\ ~relogins[1].returns

\* C6 witness: the fallback login after a failed relogin was rejected.
C6_Witness ==
    /\ Len(logins) = 1
    /\ logins[1].caller = "relogin"
    /\ logins[1].resp.status = 400
    /\ Carries(logins[1].resp, IncorrectMsg)
    /\ err = "AuthenticationError"


\* A login or relogin step, and the response it received.
LoginStep   == Len(logins') = Len(logins) + 1
ReloginStep == Len(relogins') = Len(relogins) + 1
LoginResp   == logins'[Len(logins')].resp
ReloginResp == relogins'[Len(relogins')].resp

\* C7: tokens.yaml changes only in a login or relogin step whose own
\* response is 200; a login or relogin answered anything else leaves it as
\* it was, and so does every other step of the run.
C7_StoreWrittenOn200Only ==
    [][ /\ tokenFile' # tokenFile =>
              \/ LoginStep /\ LoginResp.status = 200
              \/ ReloginStep /\ ReloginResp.status = 200
        /\ (LoginStep /\ LoginResp.status # 200) => tokenFile' = tokenFile
        /\ (ReloginStep /\ ReloginResp.status # 200) => tokenFile' = tokenFile
      ]_vars

\* C7 witness: a relogin answered 400 wrote nothing, the fallback login
\* answered 200 wrote its response.
C7_Witness ==
    /\ Len(relogins) = 1
    /\ relogins[1].resp.status = 400
    /\ Len(logins) = 1
    /\ logins[1].resp.status = 200
    /\ logins[1].raised = None
    /\ tokenFile = [exists |-> TRUE, doc |-> YamlDump(logins[1].resp.body)]

\* C8: after a login answered 200, loading tokens.yaml gives the access
\* token that login returned.
C8_LoginRoundTrip ==
    \A k \in 1..Len(logins) :
       (logins[k].resp.status = 200 /\ logins[k].raised = None) =>
          /\ tokenFile.exists
          /\ HasKey(YamlLoad(tokenFile.doc), "access_token")
          /\ YamlLoad(tokenFile.doc).access_token = logins[k].ret
          /\ logins[k].ret = logins[k].resp.body.access_token

\* C8 witness: a startup login succeeded over a file holding another
\* access token, without a refresh token in the response.
C8_Witness ==
    /\ Len(logins) = 1
    /\ logins[1].resp.status = 200
    /\ logins[1].ret = "at2"
    /\ ~HasKey(logins[1].resp.body, "refresh_token")
    /\ HasKey(globals, "access_token")
    /\ globals.access_token = "at2"
    /\ pc = "query1"

\* C9: a run whose final events response has a non-2xx status or no events
\* field ends in an error; it never completes as a clean run.
C9_FinalErrorSurfaced ==
    pc = "done" =>
        LET final == queries[Len(queries)].resp
        IN  /\ final.status \in 200..299
            /\ final.isJson
            /\ HasKey(final.body, "events")

\* A response that is neither 200 nor a 400 carrying the message.
Neither(resp, msg) ==
    /\ resp.status # 200
    /\ ~(resp.status = 400 /\ Carries(resp, msg))

\* C10 as stated: every login answered neither 200 nor 400 'Incorrect
\* username or password', and every relogin answered neither 200 nor 400
\* 'Failed to re-login.', raises nothing.
C10_NeitherNeverRaises ==
    /\ \A k \in 1..Len(logins) :
          Neither(logins[k].resp, IncorrectMsg) => logins[k].raised = None
    /\ \A k \in 1..Len(relogins) :
          Neither(relogins[k].resp, FailedMsg) => relogins[k].raised = None

\* A response that makes the call fall off its end: a status other than
\* 200 and 400, or a 400 whose JSON body has an error field without the
\* message.
FallsThrough(resp, msg) ==
    /\ resp.status # 200
    /\ resp.status = 400 =>
          /\ resp.isJson
          /\ HasKey(resp.body, "error")
          /\ ~Contains(msg, resp.body.error)

\* C10 amended: a login or relogin whose response falls through returns
\* None, raises nothing and leaves tokens.yaml as it was, and the caller
\* goes on: the next events query carries None as its bearer token.
C10_FallThroughContinues ==
    [][ /\ (LoginStep /\ FallsThrough(LoginResp, IncorrectMsg)) =>
              /\ logins'[Len(logins')].raised = None
              /\ logins'[Len(logins')].ret = None
              /\ tokenFile' = tokenFile
              /\ err' = None
              /\ loginCaller = "startup" =>
                    pc' = "query1" /\ globals'.access_token = None
              /\ loginCaller = "relogin" =>
                    /\ pc' = "query2"
                    /\ localToken' = None
                    /\ relogins'[Len(relogins')].ret = None
        /\ (ReloginStep /\ FallsThrough(ReloginResp, FailedMsg)) =>
              /\ relogins'[Len(relogins')].raised = None
              /\ relogins'[Len(relogins')].ret = None
              /\ tokenFile' = tokenFile
              /\ err' = None
              /\ pc' = "query2"
              /\ localToken' = None
              /\ logins' = logins
        /\ (Len(queries') = Len(queries) + 1 /\ pc = "query1"
              /\ globals.access_token = None) =>
              queries'[1].bearer = None
        /\ (Len(queries') = Len(queries) + 1 /\ pc = "query2"
              /\ localToken = None) =>
              queries'[2].bearer = None
      ]_vars

\* C10 witness: relogin fell back to a login answered 500, and the second
\* query went out with None as its bearer token.
C10_Witness ==
    /\ Len(logins) = 1
    /\ logins[1].caller = "relogin"
    /\ logins[1].resp.status = 500
    /\ logins[1].ret = None
    /\ Len(queries) = 2
    /\ queries[2].bearer = None

====
